---- MODULE Spec2Model ----
(***************************************************************************)
(* Model of the brainrust core (src/src/lang.rs): the compiler             *)
(* VM::construct and the interpreter VM::step.                             *)
(*                                                                         *)
(* Indices (ip, dp, jump destinations, the jumps stack) are 0-based as in  *)
(* the Rust source; TLA+ sequences are 1-based, so At(s, i) reads s[i+1].  *)
(* An out-of-bounds index, which panics in Rust, is modelled by the        *)
(* explicit state pc = "panic".                                            *)
(***************************************************************************)
EXTENDS Naturals, Integers, Sequences, FiniteSets, TLC

VARIABLES src, pc, instructions, ip, dp, data, input, output, ret, executed,
          run_calls

vars == <<src, pc, instructions, ip, dp, data, input, output, ret, executed,
          run_calls>>

(* ------------------------------ bounds -------------------------------- *)

MaxSrcLen == 4

MaxInput == 2

MaxTape == 6

MaxOutput == 5

(* run_calls stops counting here. *)
MaxCalls == 12

(* Length of the sources over LoopChars. *)
MaxLoopLen == 7

(* --------------------------- program constants ------------------------ *)

u8MAX == 255

(* The eight instruction characters and one character that is ignored. *)
Chars == {">", "<", "+", "-", ".", ",", "[", "]", "x"}

InputBytes == {1, 255}

SeqsUpTo(S, n) == UNION {[1..k -> S] : k \in 0..n}

Sources == SeqsUpTo(Chars, MaxSrcLen)

Inputs == SeqsUpTo(InputBytes, MaxInput)

(* ------------------------------ helpers ------------------------------- *)

At(s, i) == s[i + 1]

InBounds(s, i) == i >= 0 /\ i < Len(s)

SetAt(s, i, v) == [s EXCEPT ![i + 1] = v]

(* ---------------------------- Instruction ----------------------------- *)

(* enum Instruction; dest is meaningful for Jump and Loop only. *)
Instr(o, d) == [op |-> o, dest |-> d]

from_char(c) ==
    CASE c = ">" -> Instr("Right", 0)
      [] c = "<" -> Instr("Left", 0)
      [] c = "+" -> Instr("Up", 0)
      [] c = "-" -> Instr("Down", 0)
      [] c = "." -> Instr("Out", 0)
      [] c = "," -> Instr("In", 0)
      [] c = "[" -> Instr("Jump", 0)
      [] c = "]" -> Instr("Loop", 0)
      [] OTHER   -> Instr("None", 0)

(* ---------------------------- VM::construct --------------------------- *)

(* State of the compile loop: the instructions built so far, the stack of
   pending Jump positions and whether SyntaxError was returned. *)
scan_init == [instructions |-> <<>>, jumps |-> <<>>, err |-> FALSE]

(* scan_char with the empty-stack test of a close bracket dropped: an
   unmatched Loop is pushed like any other instruction. *)
scan_char_noUnmatched(st, c) ==
    LET instr == from_char(c) IN
    IF st.err \/ instr.op = "None" THEN st
    ELSE IF instr.op = "Loop" /\ st.jumps # <<>> THEN
        LET loop_to == st.jumps[Len(st.jumps)]
            patched == SetAt(st.instructions, loop_to,
                             Instr("Jump", Len(st.instructions)))
            pushed  == Append(patched, Instr("Loop", loop_to))
        IN  [instructions |-> Append(pushed, instr),
             jumps        |-> SubSeq(st.jumps, 1, Len(st.jumps) - 1),
             err          |-> FALSE]
    ELSE IF instr.op = "Jump" THEN
        [instructions |-> Append(st.instructions, instr),
         jumps        |-> Append(st.jumps, Len(st.instructions)),
         err          |-> FALSE]
    ELSE [st EXCEPT !.instructions = Append(st.instructions, instr)]

(* scan_char that patches the Jump with the index after the new Loop. *)
scan_char_targetPlusOne(st, c) ==
    LET instr == from_char(c) IN
    IF st.err \/ instr.op = "None" THEN st
    ELSE IF instr.op = "Loop" THEN
        IF st.jumps # <<>> THEN
            LET loop_to == st.jumps[Len(st.jumps)]
                patched == SetAt(st.instructions, loop_to,
                                 Instr("Jump", Len(st.instructions) + 1))
                pushed  == Append(patched, Instr("Loop", loop_to))
            IN  [instructions |-> Append(pushed, instr),
                 jumps        |-> SubSeq(st.jumps, 1, Len(st.jumps) - 1),
                 err          |-> FALSE]
        ELSE [st EXCEPT !.err = TRUE]
    ELSE IF instr.op = "Jump" THEN
        [instructions |-> Append(st.instructions, instr),
         jumps        |-> Append(st.jumps, Len(st.instructions)),
         err          |-> FALSE]
    ELSE [st EXCEPT !.instructions = Append(st.instructions, instr)]

(* scan_char without the `instr != Instruction::None` filter. *)
scan_char_noFilter(st, c) ==
    LET instr == from_char(c) IN
    IF st.err THEN st
    ELSE IF instr.op = "Loop" THEN
        IF st.jumps # <<>> THEN
            LET loop_to == st.jumps[Len(st.jumps)]
                patched == SetAt(st.instructions, loop_to,
                                 Instr("Jump", Len(st.instructions)))
                pushed  == Append(patched, Instr("Loop", loop_to))
            IN  [instructions |-> Append(pushed, instr),
                 jumps        |-> SubSeq(st.jumps, 1, Len(st.jumps) - 1),
                 err          |-> FALSE]
        ELSE [st EXCEPT !.err = TRUE]
    ELSE IF instr.op = "Jump" THEN
        [instructions |-> Append(st.instructions, instr),
         jumps        |-> Append(st.jumps, Len(st.instructions)),
         err          |-> FALSE]
    ELSE [st EXCEPT !.instructions = Append(st.instructions, instr)]

(* Body of `for c in src.chars()`. *)
scan_char(st, c) ==
    LET instr == from_char(c) IN
    IF st.err \/ instr.op = "None" THEN st
    ELSE IF instr.op = "Loop" THEN
        IF st.jumps # <<>> THEN
            LET loop_to == st.jumps[Len(st.jumps)]
                patched == SetAt(st.instructions, loop_to,
                                 Instr("Jump", Len(st.instructions)))
                pushed  == Append(patched, Instr("Loop", loop_to))
            IN  [instructions |-> Append(pushed, instr),
                 jumps        |-> SubSeq(st.jumps, 1, Len(st.jumps) - 1),
                 err          |-> FALSE]
        ELSE [st EXCEPT !.err = TRUE]
    ELSE IF instr.op = "Jump" THEN
        [instructions |-> Append(st.instructions, instr),
         jumps        |-> Append(st.jumps, Len(st.instructions)),
         err          |-> FALSE]
    ELSE [st EXCEPT !.instructions = Append(st.instructions, instr)]

RECURSIVE scan(_, _)
scan(st, s) == IF s = <<>> THEN st ELSE scan(scan_char(st, Head(s)), Tail(s))

(* construct without the `jumps.len() > 0` test after the loop. *)
construct_noPending(s) ==
    LET st == scan(scan_init, s) IN
    IF st.err THEN [ok |-> FALSE, instructions |-> <<>>]
    ELSE [ok |-> TRUE,
          instructions |-> Append(st.instructions, Instr("None", 0))]

(* construct without the final push of Instruction::None. *)
construct_noHalt(s) ==
    LET st == scan(scan_init, s) IN
    IF st.err THEN [ok |-> FALSE, instructions |-> <<>>]
    ELSE IF Len(st.jumps) > 0 THEN [ok |-> FALSE, instructions |-> <<>>]
    ELSE [ok |-> TRUE, instructions |-> st.instructions]

(* Result of construct: ok = FALSE is Err(SyntaxError). *)
construct(s) ==
    LET st == scan(scan_init, s) IN
    IF st.err THEN [ok |-> FALSE, instructions |-> <<>>]
    ELSE IF Len(st.jumps) > 0 THEN [ok |-> FALSE, instructions |-> <<>>]
    ELSE [ok |-> TRUE,
          instructions |-> Append(st.instructions, Instr("None", 0))]

(* ------------------------------ VM::step ------------------------------ *)

(* The state step works on: the VM's fields and the two arguments. *)
Self == [ip |-> ip, dp |-> dp, data |-> data, input |-> input,
         output |-> output]

(* Right without the push_back that keeps dp inside the tape. *)
Right_noGrow(s) == [s EXCEPT !.dp = s.dp + 1]

(* Right that pushes a cell on every move. *)
Right_alwaysGrow(s) ==
    [s EXCEPT !.dp = s.dp + 1, !.data = Append(s.data, 0)]

Right(s) ==
    LET dp1 == s.dp + 1 IN
    [s EXCEPT !.dp = dp1,
              !.data = IF Len(s.data) = dp1 THEN Append(s.data, 0)
                       ELSE s.data]

(* Left that grows the tape at the right end. *)
Left_pushBack(s) ==
    IF s.dp > 0 THEN [s EXCEPT !.dp = s.dp - 1]
    ELSE [s EXCEPT !.data = Append(s.data, 0)]

Left(s) ==
    IF s.dp > 0 THEN [s EXCEPT !.dp = s.dp - 1]
    ELSE [s EXCEPT !.data = <<0>> \o s.data]

(* Increment without the u8::MAX test. *)
UpCell_noWrap(v) == v + 1

UpCell(v) == IF v = u8MAX THEN 0 ELSE v + 1

DownCell(v) == IF v = 0 THEN u8MAX ELSE v - 1

Up(s) == [s EXCEPT !.data = SetAt(s.data, s.dp, UpCell(At(s.data, s.dp)))]

Down(s) == [s EXCEPT !.data = SetAt(s.data, s.dp, DownCell(At(s.data, s.dp)))]

(* Out that puts the byte at the front of the output. *)
Out_prepend(s) == [s EXCEPT !.output = <<At(s.data, s.dp)>> \o s.output]

Out(s) == [s EXCEPT !.output = Append(s.output, At(s.data, s.dp))]

(* In that takes the byte from the back of the queue. *)
In_popBack(s) ==
    IF s.input # <<>>
    THEN [s EXCEPT !.data = SetAt(s.data, s.dp, s.input[Len(s.input)]),
                   !.input = SubSeq(s.input, 1, Len(s.input) - 1)]
    ELSE [s EXCEPT !.data = SetAt(s.data, s.dp, 0)]

In(s) ==
    IF s.input # <<>>
    THEN [s EXCEPT !.data = SetAt(s.data, s.dp, Head(s.input)),
                   !.input = Tail(s.input)]
    ELSE [s EXCEPT !.data = SetAt(s.data, s.dp, 0)]

(* Jump with the test inverted. *)
Jump_inverted(s, dest) ==
    LET do_jump == At(s.data, s.dp) # 0 IN
    IF do_jump THEN [s EXCEPT !.ip = dest] ELSE s

Jump(s, dest) ==
    LET do_jump == At(s.data, s.dp) = 0 IN
    IF do_jump THEN [s EXCEPT !.ip = dest] ELSE s

(* Loop that compensates for the advance of the epilogue, so that the
   instruction pointer ends on the Jump itself. *)
Loop_backToTest(s, dest) ==
    LET do_loop == At(s.data, s.dp) # 0 IN
    IF do_loop THEN [s EXCEPT !.ip = dest - 1] ELSE s

(* Loop with the test inverted. *)
Loop_inverted(s, dest) ==
    LET do_loop == At(s.data, s.dp) = 0 IN
    IF do_loop THEN [s EXCEPT !.ip = dest] ELSE s

Loop(s, dest) ==
    LET do_loop == At(s.data, s.dp) # 0 IN
    IF do_loop THEN [s EXCEPT !.ip = dest] ELSE s

(* The match arms of step other than None. *)
arm(s, instr) ==
    CASE instr.op = "Right" -> Right(s)
      [] instr.op = "Left"  -> Left(s)
      [] instr.op = "Up"    -> Up(s)
      [] instr.op = "Down"  -> Down(s)
      [] instr.op = "Out"   -> Out(s)
      [] instr.op = "In"    -> In(s)
      [] instr.op = "Jump"  -> Jump(s, instr.dest)
      [] instr.op = "Loop"  -> Loop(s, instr.dest)

(* Right and Left do not read data[dp]; every other arm indexes it. *)
reads_cell(instr) == instr.op \notin {"Right", "Left", "None"}

(* Epilogue that reports Halt only once the advance has gone past it. *)
epilogue_lateHalt(s, instrs) ==
    LET ip1 == s.ip + 1 IN
    IF InBounds(instrs, ip1)
    THEN [s |-> [s EXCEPT !.ip = ip1], panic |-> FALSE, ret |-> FALSE]
    ELSE [s |-> s, panic |-> FALSE, ret |-> TRUE]

(* `self.ip += 1; return self.instructions[self.ip] == Instruction::None`.
   The result carries the new state, the returned flag and whether the
   index panicked. *)
epilogue_testBeforeAdvance(s, instrs) ==
    LET ip1 == s.ip + 1 IN
    IF InBounds(instrs, ip1)
    THEN [s |-> [s EXCEPT !.ip = ip1], panic |-> FALSE,
          ret |-> At(instrs, s.ip).op = "None"]
    ELSE [s |-> [s EXCEPT !.ip = ip1], panic |-> TRUE, ret |-> FALSE]

epilogue(s, instrs) ==
    LET ip1 == s.ip + 1 IN
    IF InBounds(instrs, ip1)
    THEN [s |-> [s EXCEPT !.ip = ip1], panic |-> FALSE,
          ret |-> At(instrs, ip1).op = "None"]
    ELSE [s |-> [s EXCEPT !.ip = ip1], panic |-> TRUE, ret |-> FALSE]

(* step whose None arm falls through to the epilogue instead of returning. *)
step_haltAdvances(s, instrs) ==
    IF ~InBounds(instrs, s.ip) THEN [s |-> s, panic |-> TRUE, ret |-> FALSE]
    ELSE LET instr == At(instrs, s.ip) IN
         IF instr.op = "None" THEN epilogue(s, instrs)
         ELSE IF reads_cell(instr) /\ ~InBounds(s.data, s.dp)
              THEN [s |-> s, panic |-> TRUE, ret |-> FALSE]
              ELSE epilogue(arm(s, instr), instrs)

step(s, instrs) ==
    IF ~InBounds(instrs, s.ip) THEN [s |-> s, panic |-> TRUE, ret |-> FALSE]
    ELSE LET instr == At(instrs, s.ip) IN
         IF instr.op = "None" THEN [s |-> s, panic |-> FALSE, ret |-> TRUE]
         ELSE IF reads_cell(instr) /\ ~InBounds(s.data, s.dp)
              THEN [s |-> s, panic |-> TRUE, ret |-> FALSE]
              ELSE epilogue(arm(s, instr), instrs)

(* ------------------------------ behaviour ----------------------------- *)

Init ==
    /\ src \in Sources
    /\ input \in Inputs
    /\ pc = "new"
    /\ instructions = <<>>
    /\ ip = 0
    /\ dp = 0
    /\ data = <<>>
    /\ output = <<>>
    /\ ret = "unset"
    /\ executed = "unset"
    /\ run_calls = 0

(* Scenario B of the specification, and the sources that differ from it in
   one character. *)
ScenarioB == <<"+", "[", ">", "+", "<", "-", "]">>

ScenarioSources ==
    {[ScenarioB EXCEPT ![i] = c] : i \in 1..Len(ScenarioB), c \in Chars}

InitScenario ==
    /\ src \in ScenarioSources
    /\ input \in Inputs
    /\ pc = "new"
    /\ instructions = <<>>
    /\ ip = 0
    /\ dp = 0
    /\ data = <<>>
    /\ output = <<>>
    /\ ret = "unset"
    /\ executed = "unset"
    /\ run_calls = 0

(* Sources long enough for nested loops that are entered and left, over
   the characters that make loops run and end; they take no input. *)
LoopChars == {"-", ">", "[", "]"}

LoopSources == SeqsUpTo(LoopChars, MaxLoopLen)

InitLoops ==
    /\ src \in LoopSources
    /\ input = <<>>
    /\ pc = "new"
    /\ instructions = <<>>
    /\ ip = 0
    /\ dp = 0
    /\ data = <<>>
    /\ output = <<>>
    /\ ret = "unset"
    /\ executed = "unset"
    /\ run_calls = 0

(* VM::construct(src) succeeds. *)
ConstructOk ==
    /\ pc = "new"
    /\ construct(src).ok
    /\ pc' = "ready"
    /\ instructions' = construct(src).instructions
    /\ ip' = 0
    /\ dp' = 0
    /\ data' = <<0>>
    /\ UNCHANGED <<src, input, output, ret, executed, run_calls>>

(* VM::construct(src) returns Err(SyntaxError). *)
ConstructErr ==
    /\ pc = "new"
    /\ ~construct(src).ok
    /\ pc' = "error"
    /\ UNCHANGED <<src, instructions, ip, dp, data, input, output, ret,
                   executed, run_calls>>

(* The iterations of `while !self.step(input, output) {}`: run calls step
   until a call returns true, so a call counts while none has. *)
run_count(n, returned) ==
    IF returned \/ n >= MaxCalls THEN n ELSE n + 1

(* One call vm.step(&mut input, &mut output). *)
Step ==
    /\ pc = "ready"
    /\ LET r == step(Self, instructions) IN
       /\ Len(r.s.data) <= MaxTape
       /\ Len(r.s.output) <= MaxOutput
       /\ ip' = r.s.ip
       /\ dp' = r.s.dp
       /\ data' = r.s.data
       /\ input' = r.s.input
       /\ output' = r.s.output
       /\ pc' = IF r.panic THEN "panic" ELSE "ready"
       /\ ret' = IF r.panic THEN ret ELSE IF r.ret THEN "true" ELSE "false"
       /\ executed' = IF InBounds(instructions, ip)
                      THEN At(instructions, ip).op ELSE executed
       /\ run_calls' = run_count(run_calls, ret = "true")
    /\ UNCHANGED <<src, instructions>>

Next == ConstructOk \/ ConstructErr \/ Step

Spec == Init /\ [][Next]_vars

SpecScenario == InitScenario /\ [][Next]_vars

SpecLoops == (Init \/ InitLoops) /\ [][Next]_vars


(* ------------------- vocabulary of the properties --------------------- *)

Recognized == {">", "<", "+", "-", ".", ",", "[", "]"}

RecognizedCount(s) == Cardinality({i \in 1..Len(s) : s[i] \in Recognized})

(* Opens minus closes among s[i..j]. *)
Depth(s, i, j) ==
    Cardinality({k \in i..j : s[k] = "["})
        - Cardinality({k \in i..j : s[k] = "]"})

Balanced(s) ==
    /\ \A k \in 1..Len(s) : Depth(s, 1, k) >= 0
    /\ Depth(s, 1, Len(s)) = 0

ExcessClose(s) == \E k \in 1..Len(s) : Depth(s, 1, k) < 0

Unclosed(s) ==
    \E i \in 1..Len(s) :
        /\ s[i] = "["
        /\ \A j \in i..Len(s) : Depth(s, i, j) > 0

Constructed == pc # "new"

(* The instruction step is about to match on, when the VM is ready. *)
Current == IF pc = "ready" /\ InBounds(instructions, ip)
           THEN At(instructions, ip).op ELSE "unset"

(* ------------------------------- claims ------------------------------- *)

(* C1: for every balanced source construct succeeds and the instruction
   sequence has exactly one instruction per recognized character plus the
   final Halt. *)
C1_LengthIsRecognizedPlusOne ==
    (Constructed /\ Balanced(src)) =>
        /\ pc # "error"
        /\ Len(instructions) = RecognizedCount(src) + 1

(* C2: a source with a prefix holding more ']' than '[' is rejected with
   SyntaxError, whatever follows. *)
C2_ExcessCloseIsError ==
    (Constructed /\ ExcessClose(src)) => pc = "error"

C2_Witness ==
    /\ pc = "error"
    /\ ExcessClose(src)
    /\ Len(src) >= 2
    /\ Depth(src, 1, Len(src)) = 0

(* C3: a source with a '[' that no later ']' closes is rejected with
   SyntaxError and no VM is produced. *)
C3_UnclosedIsError ==
    (Constructed /\ Unclosed(src)) =>
        /\ pc = "error"
        /\ instructions = <<>>
        /\ data = <<>>

C3_Witness ==
    /\ pc = "error"
    /\ Unclosed(src)
    /\ ~ExcessClose(src)
    /\ RecognizedCount(src) > 1

(* C4: in every state reached from a constructed VM by step calls the data
   pointer is a valid index into the tape. *)
C4_DpInTape ==
    pc \in {"ready", "panic"} => (dp >= 0 /\ dp < Len(data))

C4_Witness ==
    /\ pc = "ready"
    /\ executed = "Left"
    /\ ip = 1
    /\ dp = 0
    /\ Len(data) = 2

(* C5: no step indexes the instruction sequence out of bounds: the
   instruction pointer is valid when step reads it at entry and after it
   has been advanced. *)
C5_IpInProgram ==
    /\ pc # "panic"
    /\ pc = "ready" => (ip >= 0 /\ ip < Len(instructions))

C5_Witness ==
    /\ pc = "ready"
    /\ executed = "Loop"
    /\ ip = Len(instructions) - 1

(* C6: step returns true exactly when the instruction at the instruction
   pointer on return is Halt. *)
C6_RetIffNextIsHalt ==
    (pc = "ready" /\ ret # "unset") =>
        (ret = "true" <=> At(instructions, ip).op = "None")

C6_Witness ==
    /\ pc = "ready"
    /\ ret = "true"
    /\ executed \in {"Jump", "Loop"}

(* C7: with the instruction pointer at Halt, step returns true and changes
   nothing: ip, dp, tape, input queue and output stay as they are. *)
C7_Step ==
    Current = "None" =>
        /\ pc' = "ready"
        /\ ret' = "true"
        /\ UNCHANGED <<ip, dp, data, input, output, instructions>>

C7_HaltIsNoOp == [][C7_Step]_vars

C7_Witness ==
    /\ pc = "ready"
    /\ executed = "None"
    /\ ret = "true"
    /\ ip > 0
    /\ output # <<>>

(* C8: Increment and Decrement change the cell at dp by one modulo 256,
   each undoes the other, every cell stays in 0..255 and nothing but that
   cell changes. *)
C8_Step ==
    /\ Current = "Up" =>
        /\ data' = SetAt(data, dp, (At(data, dp) + 1) % 256)
        /\ DownCell(At(data', dp)) = At(data, dp)
        /\ UNCHANGED <<dp, input, output>>
    /\ Current = "Down" =>
        /\ data' = SetAt(data, dp, (At(data, dp) + 255) % 256)
        /\ UpCell(At(data', dp)) = At(data, dp)
        /\ UNCHANGED <<dp, input, output>>
    /\ \A i \in 1..Len(data') : data'[i] \in 0..255

C8_WrapAround == [][C8_Step]_vars

C8_Witness ==
    /\ pc = "ready"
    /\ executed = "Up"
    /\ At(data, dp) = 0

(* C9: the tape starts as [0], never shrinks, grows by at most one cell per
   step, only on MoveRight at the last cell or MoveLeft at cell 0, and the
   added cell is 0. *)
C9_Step ==
    /\ (pc = "new" /\ pc' = "ready") => data' = <<0>>
    /\ pc = "ready" =>
        /\ Len(data') >= Len(data)
        /\ Len(data') <= Len(data) + 1
        /\ Len(data') > Len(data) =>
            \/ /\ Current = "Right"
               /\ dp = Len(data) - 1
               /\ data' = Append(data, 0)
            \/ /\ Current = "Left"
               /\ dp = 0
               /\ data' = <<0>> \o data

C9_TapeGrowth == [][C9_Step]_vars

C9_Witness ==
    /\ pc = "ready"
    /\ executed = "Right"
    /\ ip = 3
    /\ Len(data) = 3
    /\ dp = 2

(* C10: InputByte takes the front byte of the queue into the cell at dp,
   or 0 when the queue is empty, and no other instruction touches the
   queue. *)
C10_Step ==
    pc = "ready" =>
        IF Current = "In"
        THEN /\ pc' = "ready"
             /\ input # <<>> =>
                 /\ data' = SetAt(data, dp, Head(input))
                 /\ input' = Tail(input)
             /\ input = <<>> =>
                 /\ data' = SetAt(data, dp, 0)
                 /\ input' = <<>>
        ELSE input' = input

C10_InputFifo == [][C10_Step]_vars

C10_Witness ==
    /\ pc = "ready"
    /\ executed = "In"
    /\ Len(input) = 1
    /\ At(data, dp) # Head(input)

(* The index at which the VM keeps the instruction of source position p:
   one slot per earlier recognized character and one more per earlier
   ']'. *)
InstrIndex(s, p) ==
    Cardinality({k \in 1..(p - 1) : s[k] \in Recognized})
        + Cardinality({k \in 1..(p - 1) : s[k] = "]"})

(* The position of the ']' that closes the '[' at position p. *)
MatchClose(s, p) ==
    CHOOSE q \in (p + 1)..Len(s) :
        /\ Depth(s, p, q) = 0
        /\ \A r \in p..(q - 1) : Depth(s, p, r) > 0

Opens(s) == {p \in 1..Len(s) : s[p] = "["}

(* C11 as stated: each JumpIfZero stores the index immediately after its
   matching LoopIfNonzero, and that LoopIfNonzero stores the index of the
   JumpIfZero. *)
C11_TargetAfterLoop ==
    pc = "ready" =>
        \A p \in Opens(src) :
            LET i == InstrIndex(src, p)
                j == InstrIndex(src, MatchClose(src, p))
            IN  /\ At(instructions, i) = Instr("Jump", j + 1)
                /\ At(instructions, j) = Instr("Loop", i)

C11_Pairing ==
    \A p \in Opens(src) :
        LET i == InstrIndex(src, p)
            j == InstrIndex(src, MatchClose(src, p))
        IN  /\ At(instructions, i) = Instr("Jump", j)
            /\ At(instructions, j) = Instr("Loop", i)

C11_Step ==
    /\ (pc = "new" /\ pc' = "ready") => C11_Pairing'
    /\ pc = "ready" => instructions' = instructions

(* C11 (amended): each JumpIfZero stores the index of its matching
   LoopIfNonzero itself (step adds one after jumping), that LoopIfNonzero
   stores the index of the JumpIfZero, and no step changes the instruction
   sequence. *)
C11_TargetIsLoop == [][C11_Step]_vars

C11_Witness ==
    /\ pc = "ready"
    /\ ret = "true"
    /\ \E p \in Opens(src) : p + 1 \in Opens(src)

(* C12: a compiled instruction sequence holds exactly one Halt, at the last
   index, and no JumpIfZero or LoopIfNonzero stores the Halt index. *)
C12_OneHaltNeverTarget ==
    pc = "ready" =>
        LET n == Len(instructions) IN
        /\ n >= 1
        /\ At(instructions, n - 1).op = "None"
        /\ \A k \in 0..(n - 2) : At(instructions, k).op # "None"
        /\ \A k \in 0..(n - 1) :
               At(instructions, k).op \in {"Jump", "Loop"} =>
                   At(instructions, k).dest # n - 1

C12_Witness ==
    /\ pc = "ready"
    /\ Len(src) >= 3
    /\ src[Len(src)] = "]"
    /\ src[1] # "["

(* run has returned: a step call has returned true. *)
Returned == pc = "ready" /\ ret = "true"

(* The step calls of one pass over `+[>+<-]`: one for each of the seven
   characters and one more for the second instruction compiled from `]`. *)
ScenarioBCalls == Len(ScenarioB) + 1

(* C13: run on `+[>+<-]` with empty input terminates with tape [0,1] and
   empty output, the loop body having run exactly once. *)
C13_ScenarioB ==
    (src = ScenarioB /\ input = <<>> /\ Constructed) =>
        /\ pc = "ready"
        /\ output = <<>>
        /\ run_calls <= ScenarioBCalls
        /\ ~Returned => (run_calls < ScenarioBCalls /\ ENABLED Step)
        /\ Returned =>
            /\ run_calls = ScenarioBCalls
            /\ data = <<0, 1>>
            /\ dp = 0

C13_Witness ==
    /\ src = ScenarioB
    /\ input = <<>>
    /\ Returned
    /\ data = <<0, 1>>

C14_Step ==
    RecognizedCount(src) = 0 =>
        /\ input' = input
        /\ pc' = "ready"
        /\ instructions' = <<Instr("None", 0)>>
        /\ ip' = 0
        /\ dp' = 0
        /\ data' = <<0>>
        /\ output' = <<>>
        /\ pc = "new" => (ret' = "unset" /\ run_calls' = 0)
        /\ pc = "ready" => (ret' = "true" /\ run_calls' = 1)

(* C14: a source without instruction characters compiles to Halt alone, and
   run returns after one step call with empty output, tape [0], dp = 0,
   ip = 0 and the input queue as it was. *)
C14_HaltOnly == [][C14_Step]_vars

C14_Witness ==
    /\ Returned
    /\ Len(src) > 0
    /\ RecognizedCount(src) = 0
    /\ input # <<>>
    /\ run_calls = 1

(* The cell under the data pointer. *)
Cell == At(data, dp)

CurrentDest == At(instructions, ip).dest

C15_BackToJumpStep ==
    Current = "Loop" =>
        IF Cell # 0
        THEN /\ At(instructions, CurrentDest).op = "Jump"
             /\ ip' = CurrentDest
        ELSE ip' = ip + 1

(* C15 as stated: a LoopIfNonzero executed on a nonzero cell leaves the
   instruction pointer on the matching JumpIfZero; on a zero cell the
   instruction pointer advances by one. *)
C15_LoopBackToJump == [][C15_BackToJumpStep]_vars

C15_Step ==
    Current = "Loop" =>
        IF Cell # 0
        THEN /\ At(instructions, CurrentDest) = Instr("Jump", ip)
             /\ ip' = CurrentDest + 1
             /\ pc' = "ready"
        ELSE ip' = ip + 1

(* C15 (amended): a LoopIfNonzero executed on a nonzero cell leaves the
   instruction pointer one past the matching JumpIfZero (the stored target
   plus the advance of the epilogue), so the next step executes the first
   instruction after the JumpIfZero and the test is not re-executed; on a
   zero cell the instruction pointer advances by one. *)
C15_LoopPastJump == [][C15_Step]_vars

C15_Witness ==
    /\ pc = "ready"
    /\ executed = "Loop"
    /\ Cell # 0
    /\ ip >= 1
    /\ At(instructions, ip - 1).op = "Jump"

(* C16: every LoopIfNonzero of a compiled sequence is half of a mutual
   pair (at j with target i, the instruction at i is a JumpIfZero with
   target j), and each ']' contributes exactly one LoopIfNonzero. *)
C16_EveryLoopPaired ==
    pc = "ready" =>
        LET loops == {j \in 0..(Len(instructions) - 1) :
                          At(instructions, j).op = "Loop"}
        IN  /\ \A j \in loops :
                   At(instructions, At(instructions, j).dest)
                       = Instr("Jump", j)
            /\ Cardinality(loops)
                   = Cardinality({p \in 1..Len(src) : src[p] = "]"})

C17_Step ==
    Current = "Left" =>
        IF dp > 0
        THEN dp' = dp - 1 /\ data' = data
        ELSE /\ dp' = 0
             /\ Len(data') = Len(data) + 1
             /\ At(data', dp') = 0
             /\ \A k \in 0..(Len(data) - 1) : At(data', k + 1) = At(data, k)

(* C17: MoveLeft with dp > 0 only decrements dp; with dp = 0 it prepends
   one zero cell, keeps dp = 0 and shifts every existing cell to index + 1
   with its value. *)
C17_MoveLeft == [][C17_Step]_vars

C17_Witness ==
    /\ pc = "ready"
    /\ executed = "Left"
    /\ ip = 2
    /\ dp = 0
    /\ Len(data) = 2
    /\ At(data, 1) # 0

NoBrackets(s) == \A p \in 1..Len(s) : s[p] \notin {"[", "]"}

IsRecognized(c) == c \in Recognized

(* The recognized characters of the source, in source order. *)
Prog(s) == SelectSeq(s, IsRecognized)

C18_Step ==
    /\ (pc' = "ready" /\ ret' = "true") => At(instructions', ip').op = "None"
    /\ (NoBrackets(src) /\ pc = "ready" /\ ~Returned) =>
        LET n == RecognizedCount(src) IN
        /\ pc' = "ready"
        /\ run_calls = ip
        /\ IF n = 0
           THEN /\ executed' = "None"
                /\ ip' = 0
                /\ run_calls' = 1
                /\ ret' = "true"
           ELSE /\ ip < n
                /\ executed' = from_char(Prog(src)[ip + 1]).op
                /\ ip' = ip + 1
                /\ run_calls' = ip + 1
                /\ ret' = "true" <=> ip' = n

C18_Progress ==
    (NoBrackets(src) /\ pc = "ready" /\ ~Returned) => ENABLED Step

(* C18: on a source without brackets and n recognized characters run
   terminates after max(n,1) step calls, having executed the n instructions
   once each in source order, with the instruction pointer at Halt; and
   whenever run returns the instruction pointer is at Halt. *)
C18_StraightLineRun == []C18_Progress /\ [][C18_Step]_vars

C18_Witness ==
    /\ Returned
    /\ NoBrackets(src)
    /\ RecognizedCount(src) = 3
    /\ Len(src) = 4
    /\ run_calls = 3
    /\ executed = "Out"

(* C20: a LoopIfNonzero that takes its jump has the index of a JumpIfZero
   as its stored target; a LoopIfNonzero whose stored target is not the
   index of a JumpIfZero is only executed on a zero cell. *)
C20_TakenLoopTargetsJump ==
    Current = "Loop" =>
        /\ Cell # 0 => At(instructions, CurrentDest).op = "Jump"
        /\ At(instructions, CurrentDest).op # "Jump" => Cell = 0

C20_Witness ==
    /\ pc = "ready"
    /\ executed = "Loop"
    /\ Cell # 0
    /\ At(instructions, 0).op # "Jump"
    /\ \E j \in 0..(Len(instructions) - 1) :
           At(instructions, j) = Instr("Loop", 0)

(* --------------- reference interpreter of the specification ----------- *)
(* It holds the recognized characters of the source, one instruction per
   character, index 0 first; index Len(prog) is Halt.  Its state is a
   record with the fields ip, dp, data, input, output. *)

(* The position of the '[' that the ']' at position q closes. *)
MatchOpen(s, q) == CHOOSE p \in Opens(s) : p < q /\ MatchClose(s, p) = q

RefInit(queue) ==
    [ip |-> 0, dp |-> 0, data |-> <<0>>, input |-> queue, output |-> <<>>]

RefNext(R) == [R EXCEPT !.ip = R.ip + 1]

RefStep(prog, R) ==
    IF R.ip >= Len(prog) THEN R
    ELSE
    LET c == prog[R.ip + 1]
        v == At(R.data, R.dp)
    IN  CASE c = ">" ->
               RefNext([R EXCEPT !.dp = R.dp + 1,
                                 !.data = IF R.dp + 1 = Len(R.data)
                                          THEN R.data \o <<0>> ELSE R.data])
          [] c = "<" ->
               RefNext(IF R.dp > 0 THEN [R EXCEPT !.dp = R.dp - 1]
                       ELSE [R EXCEPT !.data = <<0>> \o R.data])
          [] c = "+" ->
               RefNext([R EXCEPT !.data = SetAt(R.data, R.dp, (v + 1) % 256)])
          [] c = "-" ->
               RefNext([R EXCEPT !.data = SetAt(R.data, R.dp, (v + 255) % 256)])
          [] c = "." -> RefNext([R EXCEPT !.output = R.output \o <<v>>])
          [] c = "," ->
               RefNext(IF R.input = <<>>
                       THEN [R EXCEPT !.data = SetAt(R.data, R.dp, 0)]
                       ELSE [R EXCEPT !.data = SetAt(R.data, R.dp, R.input[1]),
                                      !.input = SubSeq(R.input, 2, Len(R.input))])
          [] c = "[" ->
               IF v = 0 THEN [R EXCEPT !.ip = MatchClose(prog, R.ip + 1)]
               ELSE RefNext(R)
          [] c = "]" ->
               IF v # 0 THEN [R EXCEPT !.ip = MatchOpen(prog, R.ip + 1) - 1]
               ELSE RefNext(R)

(* Where the VM keeps the instruction of reference index r: one slot per
   earlier character and one more per earlier ']'. *)
CodeIdx(prog, r) == r + Cardinality({q \in 1..r : prog[q] = "]"})

(* The reference index the VM's instruction pointer k stands for: the
   instructions of the reference that lie before k. *)
RefIp(prog, k) ==
    Cardinality({r \in 0..(Len(prog) - 1) : CodeIdx(prog, r) < k})

(* A slot of the VM that holds no instruction of the reference. *)
IsExtra(prog, k) ==
    /\ k < CodeIdx(prog, Len(prog))
    /\ \A r \in 0..(Len(prog) - 1) : CodeIdx(prog, r) # k

(* The state of the reference interpreter the VM's state stands for. *)
Abs == [ip |-> RefIp(Prog(src), ip), dp |-> dp, data |-> data,
        input |-> input, output |-> output]

C19_Step ==
    LET prog == Prog(src) IN
    /\ (pc = "new" /\ pc' = "ready") => Abs' = RefInit(input)
    /\ pc = "ready" =>
        /\ pc' = "ready"
        /\ Abs' = IF IsExtra(prog, ip) THEN Abs
                  ELSE IF Current = "Loop" /\ Cell # 0
                       THEN RefStep(prog, RefStep(prog, Abs))
                       ELSE RefStep(prog, Abs)
        /\ IsExtra(prog, ip) => (ip' = ip + 1 /\ ~IsExtra(prog, ip'))
        /\ ret' = "true" => Abs'.ip = Len(prog)
        /\ Abs'.ip = Len(prog) =>
               \/ ret' = "true"
               \/ IsExtra(prog, ip') /\ ip' + 1 = Len(instructions) - 1

(* C19: the VM built by construct and driven by step simulates the
   reference interpreter step for step: every step call is no step, one
   step or (for a taken LoopIfNonzero) two steps of the reference on the
   same tape, data pointer, input queue and output, a call that is no step
   is followed by one that is, and the VM reports Halt exactly when the
   reference has reached its Halt. *)
C19_RefinesReference == [][C19_Step]_vars

C19_Witness ==
    /\ Returned
    /\ executed = "Loop"
    /\ Len(src) >= 6
    /\ src[1] = "-"
    /\ src[2] = "["
    /\ src[3] = "["
    /\ run_calls = MaxCalls

====
